---- MODULE Spec2Model ----
(***************************************************************************)
(* Model of autost's src/dom.rs: the attribute rename table and allowlist, *)
(* the JSON value coercion, the process-wide ledger of attributes seen,    *)
(* the breadth-first Traverse iterator and the serializer's root check.    *)
(***************************************************************************)
EXTENDS Integers, Sequences, FiniteSets, TLC

VARIABLES
    ATTRIBUTES_SEEN,                 \* dom.rs:20, BTreeSet<(String, String)>
    NOT_KNOWN_GOOD_ATTRIBUTES_SEEN,  \* dom.rs:21, BTreeSet<(String, String)>
    last,                            \* the last completed call on the ledger side, with its result
    ncalls,                          \* number of calls made so far (bounded by MaxCalls)
    data,          \* RcDom: node id -> NodeData (node 0 is dom.document)
    children,      \* RcDom: node id -> Node::children, in document order
    fragment,      \* "fresh" from create_fragment until something is appended
    serialized,    \* the last call, if it was serialize: its argument and result
    trav_root,     \* the node the live Traverse was made for, or NoTraversal
    queue,         \* Traverse.0, dom.rs:66
    yielded,       \* the nodes next() has returned so far, in order
    ended,         \* how many times next() has returned None
    mutations,     \* child-list changes made since Traverse::new
    changed,       \* the first such change, if made to the node just handed out
    pc,            \* worker thread -> where it is in convert_idl_to_content_attribute
    wargs,         \* worker thread -> the (tag_name, attribute_name) of its call
    reads,         \* the accessors the reader thread has called, in order
    snap_all,      \* what debug_attributes_seen() returned to the reader
    snap_unknown   \* what debug_not_known_good_attributes_seen() returned to it

ledgerVars == <<ATTRIBUTES_SEEN, NOT_KNOWN_GOOD_ATTRIBUTES_SEEN>>
callVars == <<ATTRIBUTES_SEEN, NOT_KNOWN_GOOD_ATTRIBUTES_SEEN, last, ncalls>>
domVars == <<data, children, fragment, serialized>>
travVars == <<trav_root, queue, yielded, ended, mutations, changed>>
concVars == <<pc, wargs, reads, snap_all, snap_unknown>>
vars == <<ATTRIBUTES_SEEN, NOT_KNOWN_GOOD_ATTRIBUTES_SEEN, last, ncalls,
          data, children, fragment, serialized,
          trav_root, queue, yielded, ended, mutations, changed,
          pc, wargs, reads, snap_all, snap_unknown>>

(***************************************************************************)
(* Bounds                                                                  *)
(***************************************************************************)
MaxCalls == 2
MaxNodes == 3
MaxEnds == 2
NumWorkers == 2

(***************************************************************************)
(* Option<T>                                                               *)
(***************************************************************************)
None == <<>>
Some(x) == <<x>>

(***************************************************************************)
(* serde_json::Value.  One record shape for every variant so that values   *)
(* of different variants can be compared.                                  *)
(***************************************************************************)
VNull == [type |-> "Null", b |-> FALSE, n |-> 0, s |-> "", items |-> <<>>]
VObject == [type |-> "Object", b |-> FALSE, n |-> 0, s |-> "", items |-> <<>>]
VBool(b) == [type |-> "Bool", b |-> b, n |-> 0, s |-> "", items |-> <<>>]
VNumber(n) == [type |-> "Number", b |-> FALSE, n |-> n, s |-> "", items |-> <<>>]
VString(s) == [type |-> "String", b |-> FALSE, n |-> 0, s |-> s, items |-> <<>>]
VArray(items) == [type |-> "Array", b |-> FALSE, n |-> 0, s |-> "", items |-> items]

\* the values the callers pass in the model: every variant, and arrays that
\* are empty, hold strings only, or hold a non-string among strings
Values ==
    {VNull, VObject, VBool(FALSE), VBool(TRUE), VNumber(13), VNumber(-5),
     VString("foo"),
     VArray(<<>>), VArray(<<VString("foo")>>),
     VArray(<<VString("foo"), VString("bar")>>),
     VArray(<<VString("foo"), VNumber(1), VString("bar")>>),
     VArray(<<VNull, VBool(TRUE)>>)}

\* tag names and idl property names the callers pass in the model
Tags == {"details", "div"}
Properties == {"className", "open", "rel", "tabIndex", "unknownProp"}

(***************************************************************************)
(* The static tables, dom.rs:23-64.  A key is (Option<&str>, &str).        *)
(***************************************************************************)
KNOWN_GOOD_ATTRIBUTES ==
    {<<None, "aria-hidden">>, <<None, "aria-label">>, <<None, "id">>,
     <<None, "style">>, <<None, "tabindex">>, <<None, "title">>,
     <<Some("Mention"), "handle">>, <<Some("a"), "href">>, <<Some("a"), "name">>,
     <<Some("a"), "target">>, <<Some("details"), "name">>, <<Some("details"), "open">>,
     <<Some("div"), "align">>, <<Some("h3"), "align">>, <<Some("img"), "alt">>,
     <<Some("img"), "border">>, <<Some("img"), "height">>, <<Some("img"), "src">>,
     <<Some("img"), "width">>, <<Some("input"), "disabled">>, <<Some("input"), "name">>,
     <<Some("input"), "type">>, <<Some("input"), "value">>, <<Some("ol"), "start">>,
     <<Some("p"), "align">>, <<Some("td"), "align">>, <<Some("th"), "align">>}

\* the map as a set of <<key, value>> entries
RENAME_IDL_TO_CONTENT_ATTRIBUTE ==
    {<<<<None, "ariaHidden">>, "aria-hidden">>,
     <<<<None, "ariaLabel">>, "aria-label">>,
     <<<<None, "className">>, "class">>,
     <<<<None, "tabIndex">>, "tabindex">>}

\* BTreeMap::get_key_value: the entry with this key, if any
get_key_value(map, key) ==
    IF \E e \in map : e[1] = key
    THEN Some(CHOOSE e \in map : e[1] = key)
    ELSE None

\* Option::or_else
or_else(opt, other) == IF opt # None THEN opt ELSE other

(***************************************************************************)
(* QualName and Attribute                                                  *)
(***************************************************************************)
QualName(prefix, ns, local) == [prefix |-> prefix, ns |-> ns, local |-> local]

\* dom.rs:95-101: the null namespace
make_attribute_name(name) == QualName(None, "", name)

(***************************************************************************)
(* rename_idl_to_content_attribute, dom.rs:210-233                         *)
(***************************************************************************)
\* a lookup that tries the unscoped entry before the tag-scoped one
rename_lookup_unscoped_first(map, tag_name, attribute_name) ==
    LET found == or_else(
            get_key_value(map, <<None, attribute_name>>),
            get_key_value(map, <<Some(tag_name), attribute_name>>))
    IN  IF found = None THEN attribute_name ELSE found[1][2]

\* dom.rs:211-214: get_key_value(tag-scoped).or_else(unscoped).map_or(name)
rename_lookup(map, tag_name, attribute_name) ==
    LET found == or_else(
            get_key_value(map, <<Some(tag_name), attribute_name>>),
            get_key_value(map, <<None, attribute_name>>))
    IN  IF found = None THEN attribute_name ELSE found[1][2]

\* dom.rs:211-214: `result`
rename_result(tag_name, attribute_name) ==
    rename_lookup(RENAME_IDL_TO_CONTENT_ATTRIBUTE, tag_name, attribute_name)

\* an allowlist test that forgets the tag-scoped entries
on_known_good_list_global_only(tag_name, result) ==
    <<None, result>> \in KNOWN_GOOD_ATTRIBUTES

\* dom.rs:222-223: the negation of the `if` condition
on_known_good_list(tag_name, result) ==
    \/ <<None, result>> \in KNOWN_GOOD_ATTRIBUTES
    \/ <<Some(tag_name), result>> \in KNOWN_GOOD_ATTRIBUTES

\* an insertion that replaces the set instead of adding to it
seen_after_rename_overwrite(seen, tag_name, attribute_name) ==
    {<<tag_name, rename_result(tag_name, attribute_name)>>}

\* dom.rs:218-221: ATTRIBUTES_SEEN after the insert
seen_after_rename(seen, tag_name, attribute_name) ==
    seen \cup {<<tag_name, rename_result(tag_name, attribute_name)>>}

\* dom.rs:222-230: NOT_KNOWN_GOOD_ATTRIBUTES_SEEN after the conditional insert
not_known_good_after_rename(not_known_good, tag_name, attribute_name) ==
    LET result == rename_result(tag_name, attribute_name)
    IN  IF ~on_known_good_list(tag_name, result)
        THEN not_known_good \cup {<<tag_name, result>>}
        ELSE not_known_good

\* dom.rs:232: the value returned
rename_return(tag_name, attribute_name) ==
    make_attribute_name(rename_result(tag_name, attribute_name))

(***************************************************************************)
(* convert_idl_to_content_attribute, dom.rs:244-276                        *)
(***************************************************************************)
\* Value::as_str
as_str(value) == IF value.type = "String" THEN Some(value.s) ELSE None

\* filter_map(|value| value.as_str()).collect::<Vec<_>>()
RECURSIVE filter_map_as_str(_)
filter_map_as_str(values) ==
    IF values = <<>> THEN <<>>
    ELSE LET head == as_str(Head(values))
         IN  (IF head = None THEN <<>> ELSE <<head[1]>>)
             \o filter_map_as_str(Tail(values))

\* [&str]::join(sep): the first element, then sep and an element for each other one
RECURSIVE join_rest(_, _)
join_rest(strs, sep) ==
    IF strs = <<>> THEN "" ELSE sep \o Head(strs) \o join_rest(Tail(strs), sep)

join(strs, sep) ==
    IF strs = <<>> THEN "" ELSE Head(strs) \o join_rest(Tail(strs), sep)

\* serde_json::Number::to_string for the integers of the model
number_to_string(n) == ToString(n)

\* a match whose array arm is taken for every property
convert_value_any_array(tag_name, attribute_name, value) ==
    CASE value.type = "String" -> Some(value.s)
      [] value.type = "Number" -> Some(number_to_string(value.n))
      [] value.type = "Bool" /\ value.b -> Some("")
      [] value.type = "Bool" /\ ~value.b -> None
      [] value.type = "Array" -> Some(join(filter_map_as_str(value.items), " "))
      [] OTHER -> None

\* dom.rs:255-274: the match; None stands for the arms that `return None`
convert_value(tag_name, attribute_name, value) ==
    CASE value.type = "String" -> Some(value.s)
      [] value.type = "Number" -> Some(number_to_string(value.n))
      [] value.type = "Bool" /\ value.b -> Some("")
      [] value.type = "Bool" /\ ~value.b -> None
      [] value.type = "Array" /\ attribute_name \in {"className", "rel"} ->
            Some(join(filter_map_as_str(value.items), " "))
      [] OTHER -> None

\* dom.rs:249-251: the early return, taken before the rename is called
returns_early(value) == value = VBool(FALSE)

\* a convert without the early return: the rename runs for every value
convert_calls_rename_always(value) == TRUE

\* whether the call reaches dom.rs:254, the call of the rename
convert_calls_rename(value) == ~returns_early(value)

\* the Option<Attribute> returned
convert_return(tag_name, attribute_name, value) ==
    IF returns_early(value) THEN None
    ELSE LET name == rename_return(tag_name, attribute_name)
             text == convert_value(tag_name, attribute_name, value)
         IN  IF text = None THEN None
             ELSE Some([name |-> name, value |-> text[1]])

(***************************************************************************)
(* The order of the two BTreeSets: (String, String) compares               *)
(* lexicographically, a String by its bytes.  ByteOrder lists the names of *)
(* the model in ascending byte order.                                      *)
(***************************************************************************)
ByteOrder ==
    <<"class", "details", "div", "open", "rel", "tabindex", "unknownProp">>

Rank(s) == CHOOSE i \in 1..Len(ByteOrder) : ByteOrder[i] = s

pair_less(p, q) ==
    \/ Rank(p[1]) < Rank(q[1])
    \/ p[1] = q[1] /\ Rank(p[2]) < Rank(q[2])

\* BTreeSet::iter().cloned().collect(): the elements in ascending order
RECURSIVE btree_iter_collect(_)
btree_iter_collect(set) ==
    IF set = {} THEN <<>>
    ELSE LET least == CHOOSE p \in set : \A q \in set \ {p} : pair_less(p, q)
         IN  <<least>> \o btree_iter_collect(set \ {least})

\* dom.rs:318-320
debug_attributes_seen == btree_iter_collect(ATTRIBUTES_SEEN)

\* dom.rs:322-329
debug_not_known_good_attributes_seen ==
    btree_iter_collect(NOT_KNOWN_GOOD_ATTRIBUTES_SEEN)

(***************************************************************************)
(* The sequential specification: each action is one whole call.            *)
(***************************************************************************)
Workers == 1..NumWorkers
NoArgs == [tag |-> "", property |-> ""]
NoValue == VNull
NoCall ==
    [op |-> "none", tag |-> "", property |-> "", value |-> NoValue,
     attribute |-> None, name |-> make_attribute_name(""), listing |-> <<>>,
     seen_before |-> {}, not_known_good_before |-> {}]

(***************************************************************************)
(* The tree: an RcDom as an arena.  Node 0 is dom.document; the elements   *)
(* that create_element makes take the ids 1..MaxNodes.                     *)
(***************************************************************************)
Document == 0
Elements == 1..MaxNodes
Nodes == {Document} \cup Elements

\* the local names create_element is called with in the model
LocalNames == {"html", "p"}

NoNode == [kind |-> "None", ns |-> "", local |-> ""]
DocumentData == [kind |-> "Document", ns |-> "", local |-> ""]
\* NodeData::Element { name: QualName::new(None, ns!(html), local) }
ElementData(local) == [kind |-> "Element", ns |-> "html", local |-> local]

\* RcDom::default(): a Document with no children
default_data == [n \in Nodes |-> IF n = Document THEN DocumentData ELSE NoNode]
default_children == [n \in Nodes |-> <<>>]

Range(seq) == {seq[i] : i \in 1..Len(seq)}

Attached == UNION {Range(children[n]) : n \in Nodes}

RECURSIVE Subtree(_)
Subtree(n) == {n} \cup UNION {Subtree(children[n][i]) : i \in 1..Len(children[n])}

NoTraversal == -1
NoChange == [node |-> -1, old |-> <<>>, new |-> <<>>]
Ok(text) == [ok |-> TRUE, text |-> text, err |-> ""]
Err(msg) == [ok |-> FALSE, text |-> "", err |-> msg]
NotSerialized ==
    [called |-> FALSE, doc |-> <<>>, root_kids |-> 0, fragment |-> "none",
     result |-> Err("")]

(***************************************************************************)
(* serialize, dom.rs:119-140                                               *)
(***************************************************************************)
\* html5ever's serializer on one node: an element is its start tag, its
\* children and its end tag (create_element makes elements with no attributes)
RECURSIVE serialize_node(_)
RECURSIVE serialize_nodes(_)
serialize_node(n) ==
    "<" \o data[n].local \o ">" \o serialize_nodes(children[n])
        \o "</" \o data[n].local \o ">"

serialize_nodes(nodes) ==
    IF nodes = <<>> THEN ""
    ELSE serialize_node(Head(nodes)) \o serialize_nodes(Tail(nodes))

\* a serializer run with TraversalScope::IncludeNode
html5ever_serialize_include_node(html_root) == serialize_node(html_root)

\* dom.rs:136: html5ever::serialize with Default::default() options, whose
\* traversal scope is ChildrenOnly: the children of html_root, not the node
html5ever_serialize(html_root) == serialize_nodes(children[html_root])

\* a count check that only rejects the empty Document
wrong_root_count_only_empty(len) == len < 1

\* dom.rs:123: children.len() != 1
wrong_root_count(len) == len # 1

\* dom.rs:129-130: the root element is named html in the HTML namespace
root_is_html(node_data) ==
    /\ node_data.kind = "Element"
    /\ node_data.ns = "html"
    /\ node_data.local = "html"

serialize_result ==
    LET kids == children[Document]
    IN  IF wrong_root_count(Len(kids))
        THEN Err("expected exactly one root element but got " \o ToString(Len(kids)))
        ELSE IF ~root_is_html(data[kids[1]])
        THEN Err("expected root element to be <html>")
        ELSE Ok(html5ever_serialize(kids[1]))

(***************************************************************************)
(* Traverse, dom.rs:66-89                                                  *)
(***************************************************************************)
\* a step that puts the children at the front of the pending nodes
queue_after_next_front(pending, kids) == kids \o Tail(pending)

\* dom.rs:82-85: remove(0), then push each kid
queue_after_next(pending, kids) == Tail(pending) \o kids

Init ==
    /\ ATTRIBUTES_SEEN = {}
    /\ NOT_KNOWN_GOOD_ATTRIBUTES_SEEN = {}
    /\ last = NoCall
    /\ ncalls = 0
    /\ data = default_data
    /\ children = default_children
    /\ fragment = "none"
    /\ serialized = NotSerialized
    /\ trav_root = NoTraversal
    /\ queue = <<>>
    /\ yielded = <<>>
    /\ ended = 0
    /\ mutations = 0
    /\ changed = NoChange
    /\ pc = [w \in Workers |-> "idle"]
    /\ wargs = [w \in Workers |-> NoArgs]
    /\ reads = <<>>
    /\ snap_all = <<>>
    /\ snap_unknown = <<>>

\* a direct call of rename_idl_to_content_attribute
Rename(tag_name, attribute_name) ==
    /\ ncalls < MaxCalls
    /\ ncalls' = ncalls + 1
    /\ ATTRIBUTES_SEEN' = seen_after_rename(ATTRIBUTES_SEEN, tag_name, attribute_name)
    /\ NOT_KNOWN_GOOD_ATTRIBUTES_SEEN' =
            not_known_good_after_rename(NOT_KNOWN_GOOD_ATTRIBUTES_SEEN,
                                        tag_name, attribute_name)
    /\ last' = [NoCall EXCEPT !.op = "rename", !.tag = tag_name,
                    !.property = attribute_name,
                    !.name = rename_return(tag_name, attribute_name),
                    !.seen_before = ATTRIBUTES_SEEN,
                    !.not_known_good_before = NOT_KNOWN_GOOD_ATTRIBUTES_SEEN]
    /\ UNCHANGED <<domVars, travVars, concVars>>

\* a call of convert_idl_to_content_attribute
Convert(tag_name, attribute_name, value) ==
    /\ ncalls < MaxCalls
    /\ ncalls' = ncalls + 1
    /\ IF convert_calls_rename(value)
       THEN /\ ATTRIBUTES_SEEN' =
                    seen_after_rename(ATTRIBUTES_SEEN, tag_name, attribute_name)
            /\ NOT_KNOWN_GOOD_ATTRIBUTES_SEEN' =
                    not_known_good_after_rename(NOT_KNOWN_GOOD_ATTRIBUTES_SEEN,
                                                tag_name, attribute_name)
       ELSE UNCHANGED ledgerVars
    /\ last' = [NoCall EXCEPT !.op = "convert", !.tag = tag_name,
                    !.property = attribute_name, !.value = value,
                    !.attribute = convert_return(tag_name, attribute_name, value),
                    !.seen_before = ATTRIBUTES_SEEN,
                    !.not_known_good_before = NOT_KNOWN_GOOD_ATTRIBUTES_SEEN]
    /\ UNCHANGED <<domVars, travVars, concVars>>

DebugAttributesSeen ==
    /\ last.op # "all_seen"
    /\ last' = [NoCall EXCEPT !.op = "all_seen", !.listing = debug_attributes_seen,
                    !.seen_before = ATTRIBUTES_SEEN,
                    !.not_known_good_before = NOT_KNOWN_GOOD_ATTRIBUTES_SEEN]
    /\ UNCHANGED <<ledgerVars, ncalls, domVars, travVars, concVars>>

DebugNotKnownGoodAttributesSeen ==
    /\ last.op # "unknown_seen"
    /\ last' = [NoCall EXCEPT !.op = "unknown_seen",
                    !.listing = debug_not_known_good_attributes_seen,
                    !.seen_before = ATTRIBUTES_SEEN,
                    !.not_known_good_before = NOT_KNOWN_GOOD_ATTRIBUTES_SEEN]
    /\ UNCHANGED <<ledgerVars, ncalls, domVars, travVars, concVars>>

RenameCall == \E t \in Tags, p \in Properties : Rename(t, p)
ConvertCall == \E t \in Tags, p \in Properties, v \in Values : Convert(t, p, v)

Next ==
    \/ RenameCall
    \/ ConvertCall
    \/ DebugAttributesSeen
    \/ DebugNotKnownGoodAttributesSeen

Spec == Init /\ [][Next]_vars

(***************************************************************************)
(* The tree specification: building a tree, serializing it, traversing it. *)
(***************************************************************************)
IdleTraversal ==
    /\ trav_root' = NoTraversal
    /\ queue' = <<>>
    /\ yielded' = <<>>
    /\ ended' = 0
    /\ mutations' = 0
    /\ changed' = NoChange

\* dom.rs:175-178: a detached element with no attributes and no children
CreateElement(html_local_name) ==
    /\ \E n \in Elements : data[n] = NoNode
    /\ LET n == CHOOSE m \in Elements :
                    data[m] = NoNode /\ \A k \in Elements : k < m => data[k] # NoNode
       IN  data' = [data EXCEPT ![n] = ElementData(html_local_name)]
    /\ serialized' = NotSerialized
    /\ UNCHANGED <<children, fragment, travVars, callVars, concVars>>

\* dom.rs:148, 170: parent.children.borrow_mut().push(child), for a detached
\* child (no node has more than one parent, and the tree has no cycle)
AppendChild(parent, child) ==
    /\ data[parent] # NoNode
    /\ data[child] # NoNode
    /\ child # Document
    /\ child \notin Attached
    /\ parent \notin Subtree(child)
    /\ children' = [children EXCEPT ![parent] = Append(@, child)]
    /\ fragment' = IF fragment = "fresh" THEN "appended" ELSE fragment
    /\ serialized' = NotSerialized
    /\ IF trav_root = NoTraversal
       THEN UNCHANGED <<mutations, changed>>
       ELSE /\ mutations' = IF mutations < 2 THEN mutations + 1 ELSE mutations
            /\ changed' =
                IF mutations = 0 /\ yielded # <<>> /\ yielded[Len(yielded)] = parent
                THEN [node |-> parent, old |-> children[parent],
                      new |-> Append(children[parent], child)]
                ELSE changed
    /\ UNCHANGED <<data, trav_root, queue, yielded, ended, callVars, concVars>>

\* dom.rs:167-173: a new RcDom whose document has one child, an html element
CreateFragment ==
    /\ data' = [default_data EXCEPT ![1] = ElementData("html")]
    /\ children' = [default_children EXCEPT ![Document] = <<1>>]
    /\ fragment' = "fresh"
    /\ serialized' = NotSerialized
    /\ IdleTraversal
    /\ UNCHANGED <<callVars, concVars>>

\* dom.rs:119-140: serialize takes the RcDom by value; what is left is a new
\* RcDom::default()
Serialize ==
    /\ serialized' =
            [called |-> TRUE,
             doc |-> [i \in 1..Len(children[Document]) |-> data[children[Document][i]]],
             root_kids |-> IF children[Document] = <<>> THEN 0
                           ELSE Len(children[children[Document][1]]),
             fragment |-> fragment,
             result |-> serialize_result]
    /\ data' = default_data
    /\ children' = default_children
    /\ fragment' = "none"
    /\ IdleTraversal
    /\ UNCHANGED <<callVars, concVars>>

\* dom.rs:69-71
TraverseNew(node) ==
    /\ data[node] # NoNode
    /\ trav_root' = node
    /\ queue' = <<node>>
    /\ yielded' = <<>>
    /\ ended' = 0
    /\ mutations' = 0
    /\ changed' = NoChange
    /\ serialized' = NotSerialized
    /\ UNCHANGED <<data, children, fragment, callVars, concVars>>

\* dom.rs:77-88
TraverseNext ==
    /\ trav_root # NoTraversal
    /\ IF queue = <<>>
       THEN /\ ended < MaxEnds
            /\ ended' = ended + 1
            /\ UNCHANGED <<queue, yielded>>
       ELSE LET node == Head(queue)
            IN  /\ queue' = queue_after_next(queue, children[node])
                /\ yielded' = Append(yielded, node)
                /\ UNCHANGED ended
    /\ serialized' = NotSerialized
    /\ UNCHANGED <<data, children, fragment, trav_root, mutations, changed, callVars, concVars>>

CreateElementCall == \E name \in LocalNames : CreateElement(name)
AppendChildCall == \E parent \in Nodes, child \in Elements : AppendChild(parent, child)
TraverseNewCall == \E node \in Nodes : TraverseNew(node)

\* building a tree and serializing it
NextTree ==
    \/ CreateElementCall
    \/ AppendChildCall
    \/ CreateFragment
    \/ Serialize

SpecTree == Init /\ [][NextTree]_vars

\* building a tree and traversing it, the caller free to go on appending
\* while the iterator is live; Traverse never reads a node's name
CreateParagraph == CreateElement("p")

NextTraverse ==
    \/ CreateParagraph
    \/ AppendChildCall
    \/ TraverseNewCall
    \/ TraverseNext

SpecTraverse == Init /\ [][NextTraverse]_vars


(***************************************************************************)
(* The concurrent specification: worker threads run coercions while a      *)
(* reader thread calls the two accessors.  Each static is behind its own   *)
(* Mutex (dom.rs:20-22), and each lock is held for one statement, so a     *)
(* step is one locked statement with the thread-local code around it.      *)
(***************************************************************************)
\* dom.rs:249-254: the call begins; false returns at once, any other value
\* goes on into rename_idl_to_content_attribute
WorkerCall(w, tag_name, attribute_name, value) ==
    /\ pc[w] = "idle"
    /\ ncalls < MaxCalls
    /\ ncalls' = ncalls + 1
    /\ IF convert_calls_rename(value)
       THEN /\ pc' = [pc EXCEPT ![w] = "insert_seen"]
            /\ wargs' = [wargs EXCEPT ![w] = [tag |-> tag_name,
                                              property |-> attribute_name]]
       ELSE UNCHANGED <<pc, wargs>>
    /\ UNCHANGED <<ledgerVars, last, reads, snap_all, snap_unknown, domVars, travVars>>

\* dom.rs:218-221: ATTRIBUTES_SEEN.lock().unwrap().insert(..)
WorkerInsertSeen(w) ==
    /\ pc[w] = "insert_seen"
    /\ ATTRIBUTES_SEEN' =
            seen_after_rename(ATTRIBUTES_SEEN, wargs[w].tag, wargs[w].property)
    /\ pc' = [pc EXCEPT ![w] = "insert_not_known_good"]
    /\ UNCHANGED <<NOT_KNOWN_GOOD_ATTRIBUTES_SEEN, last, ncalls, wargs, reads,
                   snap_all, snap_unknown, domVars, travVars>>

\* dom.rs:222-232 and the rest of the coercion: the conditional insert under
\* the second lock, then the return
WorkerInsertNotKnownGood(w) ==
    /\ pc[w] = "insert_not_known_good"
    /\ NOT_KNOWN_GOOD_ATTRIBUTES_SEEN' =
            not_known_good_after_rename(NOT_KNOWN_GOOD_ATTRIBUTES_SEEN,
                                        wargs[w].tag, wargs[w].property)
    /\ pc' = [pc EXCEPT ![w] = "idle"]
    /\ wargs' = [wargs EXCEPT ![w] = NoArgs]
    /\ UNCHANGED <<ATTRIBUTES_SEEN, last, ncalls, reads, snap_all, snap_unknown,
                   domVars, travVars>>

\* dom.rs:318-320, called by the reader
ReaderAllSeen ==
    /\ \A i \in 1..Len(reads) : reads[i] # "all_seen"
    /\ snap_all' = debug_attributes_seen
    /\ reads' = Append(reads, "all_seen")
    /\ UNCHANGED <<ledgerVars, last, ncalls, pc, wargs, snap_unknown, domVars, travVars>>

\* dom.rs:322-329, called by the reader
ReaderUnknownSeen ==
    /\ \A i \in 1..Len(reads) : reads[i] # "unknown_seen"
    /\ snap_unknown' = debug_not_known_good_attributes_seen
    /\ reads' = Append(reads, "unknown_seen")
    /\ UNCHANGED <<ledgerVars, last, ncalls, pc, wargs, snap_all, domVars, travVars>>

WorkerCalls ==
    \E w \in Workers, t \in Tags, p \in Properties, v \in Values : WorkerCall(w, t, p, v)
WorkerInsertsSeen == \E w \in Workers : WorkerInsertSeen(w)
WorkerInsertsNotKnownGood == \E w \in Workers : WorkerInsertNotKnownGood(w)

NextConc ==
    \/ WorkerCalls
    \/ WorkerInsertsSeen
    \/ WorkerInsertsNotKnownGood
    \/ ReaderAllSeen
    \/ ReaderUnknownSeen

SpecConc == Init /\ [][NextConc]_vars

(***************************************************************************)
(* Properties of the ledger, the rename and the coercion                   *)
(***************************************************************************)
\* is_known_good as the design states it: the unscoped pair or the
\* tag-scoped pair is on the allowlist
is_known_good(tag, attribute) ==
    \E key \in KNOWN_GOOD_ATTRIBUTES :
        /\ key[2] = attribute
        /\ key[1] = None \/ key[1] = Some(tag)

\* the rename as the design states it: the tag-scoped entry, else the
\* unscoped entry, else the property name itself
RenameByLookupOrder(tag, property) ==
    LET scoped == {e \in RENAME_IDL_TO_CONTENT_ATTRIBUTE :
                        e[1][1] = Some(tag) /\ e[1][2] = property}
        unscoped == {e \in RENAME_IDL_TO_CONTENT_ATTRIBUTE :
                        e[1][1] = None /\ e[1][2] = property}
    IN  IF scoped # {} THEN (CHOOSE e \in scoped : TRUE)[2]
        ELSE IF unscoped # {} THEN (CHOOSE e \in unscoped : TRUE)[2]
        ELSE property

\* the decimal rendering of the numbers of the model
Decimal(n) == CASE n = 13 -> "13" [] n = -5 -> "-5" [] n = 1 -> "1" [] n = 0 -> "0"

\* the string elements of an array, space-joined, built from the right
RECURSIVE SpaceJoined(_)
SpaceJoined(items) ==
    IF items = <<>> THEN ""
    ELSE LET front == SubSeq(items, 1, Len(items) - 1)
             final == items[Len(items)]
             before == SpaceJoined(front)
         IN  IF final.type # "String" THEN before
             ELSE IF \A i \in 1..Len(front) : front[i].type # "String" THEN final.s
             ELSE before \o " " \o final.s

\* the rule table of the coercion, in order; None is "omit"
RuleTable(tag, property, value) ==
    LET named(text) == Some([name |-> [prefix |-> None, ns |-> "",
                                       local |-> rename_result(tag, property)],
                             value |-> text])
    IN  IF value.type = "Bool" /\ value.b = FALSE THEN None
        ELSE IF value.type = "String" THEN named(value.s)
        ELSE IF value.type = "Number" THEN named(Decimal(value.n))
        ELSE IF value.type = "Bool" /\ value.b = TRUE THEN named("")
        ELSE IF value.type = "Array" /\ (property = "className" \/ property = "rel")
             THEN named(SpaceJoined(value.items))
        ELSE None

\* the pair a call records: (tag, rename(tag, property))
RecordedPair == <<last.tag, rename_result(last.tag, last.property)>>

\* C3: every coercion returns what the rule table gives for (tag, property,
\* value) - omit for false, the string, the decimal rendering, "" for true,
\* the space-joined strings of an array on className or rel, omit otherwise -
\* named rename(tag, property) in the null namespace, whatever the ledger holds.
C3_CoerceFollowsRuleTable ==
    last.op = "convert" =>
        last.attribute = RuleTable(last.tag, last.property, last.value)

C3_Witness ==
    /\ last.op = "convert"
    /\ last.property = "className"
    /\ last.value = VArray(<<VString("foo"), VNumber(1), VString("bar")>>)
    /\ last.attribute = Some([name |-> make_attribute_name("class"), value |-> "foo bar"])
    /\ last.seen_before # {}

\* the rename table with a tag-scoped entry added for (tag, property)
WithScopedEntry(tag, property) ==
    RENAME_IDL_TO_CONTENT_ATTRIBUTE \cup {<<<<Some(tag), property>>, "scoped-name">>}

\* C4: rename returns the name of the tag-scoped entry, else that of the
\* unscoped entry, else the property itself; rename(div, tabIndex) = tabindex
\* and rename(div, unknownProp) = unknownProp.  The table of the source holds
\* no tag-scoped entry, so the precedence of one is checked by the same
\* lookup on the table with one added: it wins for its tag and is not seen
\* by any other tag.
C4_RenameLookupOrder ==
    /\ last.op = "rename" =>
            /\ last.name.local = RenameByLookupOrder(last.tag, last.property)
            /\ last.property = "tabIndex" => last.name.local = "tabindex"
            /\ last.property = "unknownProp" => last.name.local = "unknownProp"
            /\ rename_lookup(WithScopedEntry(last.tag, last.property),
                             last.tag, last.property) = "scoped-name"
            /\ \A other \in Tags \ {last.tag} :
                    rename_lookup(WithScopedEntry(last.tag, last.property),
                                  other, last.property) = last.name.local
    /\ last.op = "convert" /\ last.attribute # None =>
            last.attribute[1].name.local = RenameByLookupOrder(last.tag, last.property)

C4_Witness ==
    /\ last.op = "rename"
    /\ last.tag = "div"
    /\ last.property = "tabIndex"
    /\ last.name = make_attribute_name("tabindex")

\* C5 as claimed: every coercion call, whatever the value, leaves
\* (tag, rename(tag, property)) in the all-seen set, and in the
\* not-allowlisted set exactly when is_known_good is false for it.
C5_EveryCoercionRecords ==
    last.op = "convert" =>
        /\ RecordedPair \in ATTRIBUTES_SEEN
        /\ RecordedPair \in NOT_KNOWN_GOOD_ATTRIBUTES_SEEN
                <=> ~is_known_good(RecordedPair[1], RecordedPair[2])

\* C5 amended: a coercion call whose value is not boolean false, successful
\* or rejected, adds (tag, rename(tag, property)) to the all-seen set, and to
\* the not-allowlisted set exactly when is_known_good is false for it; a call
\* with boolean false returns omit and leaves both sets as they were.
C5_CoercionRecordsUnlessFalse ==
    last.op = "convert" =>
        IF last.value = VBool(FALSE)
        THEN /\ last.attribute = None
             /\ ATTRIBUTES_SEEN = last.seen_before
             /\ NOT_KNOWN_GOOD_ATTRIBUTES_SEEN = last.not_known_good_before
        ELSE /\ ATTRIBUTES_SEEN = last.seen_before \cup {RecordedPair}
             /\ NOT_KNOWN_GOOD_ATTRIBUTES_SEEN =
                    IF is_known_good(RecordedPair[1], RecordedPair[2])
                    THEN last.not_known_good_before
                    ELSE last.not_known_good_before \cup {RecordedPair}
             /\ RecordedPair \in NOT_KNOWN_GOOD_ATTRIBUTES_SEEN
                    <=> ~is_known_good(RecordedPair[1], RecordedPair[2])

\* a rejected coercion (null yields omit) that recorded a new, allowlisted pair
C5_Witness ==
    /\ last.op = "convert"
    /\ last.value = VNull
    /\ last.attribute = None
    /\ RecordedPair = <<"details", "open">>
    /\ RecordedPair \in ATTRIBUTES_SEEN \ last.seen_before
    /\ RecordedPair \notin NOT_KNOWN_GOOD_ATTRIBUTES_SEEN

StrictlyAscending(seq) ==
    \A i, j \in 1..Len(seq) : i < j => pair_less(seq[i], seq[j])

NoPairTwice(seq) ==
    \A i, j \in 1..Len(seq) : i # j => seq[i] # seq[j]

\* C6: in every reachable state of the ledger what unknown_seen() returns is
\* a subset of what all_seen() returns, and each returned sequence is sorted
\* and holds no pair twice.
C6_UnknownSubsetOfAllSorted ==
    /\ Range(debug_not_known_good_attributes_seen) \subseteq Range(debug_attributes_seen)
    /\ Range(debug_attributes_seen) = ATTRIBUTES_SEEN
    /\ StrictlyAscending(debug_attributes_seen)
    /\ StrictlyAscending(debug_not_known_good_attributes_seen)
    /\ NoPairTwice(debug_attributes_seen)
    /\ NoPairTwice(debug_not_known_good_attributes_seen)
    /\ last.op = "all_seen" => last.listing = debug_attributes_seen
    /\ last.op = "unknown_seen" =>
            Range(last.listing) \subseteq Range(debug_attributes_seen)

\* the reader lists the unknown pairs, a proper non-empty part of two seen
C6_Witness ==
    /\ last.op = "unknown_seen"
    /\ Len(last.listing) = 1
    /\ Len(debug_attributes_seen) = 2
    /\ debug_attributes_seen[1][1] = "details"
    /\ debug_attributes_seen[2][1] = "div"

\* C8 as claimed: a rename call changes no state; both ledger sets are the
\* same after the call as before it.
C8_RenameChangesNoState ==
    last.op = "rename" =>
        /\ ATTRIBUTES_SEEN = last.seen_before
        /\ NOT_KNOWN_GOOD_ATTRIBUTES_SEEN = last.not_known_good_before

\* C8 amended: rename returns a name for every tag and property without
\* failing, and its only change of state is to add (tag, returned name) to the
\* all-seen set and, when the name is not allowlisted, to the not-allowlisted
\* set; every pair recorded before the call is still recorded after it.
C8_RenameOnlyRecords ==
    last.op = "rename" =>
        LET pair == <<last.tag, last.name.local>>
        IN  /\ last.name.ns = "" /\ last.name.prefix = None
            /\ ATTRIBUTES_SEEN = last.seen_before \cup {pair}
            /\ NOT_KNOWN_GOOD_ATTRIBUTES_SEEN =
                    IF is_known_good(pair[1], pair[2])
                    THEN last.not_known_good_before
                    ELSE last.not_known_good_before \cup {pair}

\* a rename of an allowlisted tag-scoped attribute that changed the all-seen set
C8_Witness ==
    /\ last.op = "rename"
    /\ last.tag = "details"
    /\ last.property = "open"
    /\ <<"details", "open">> \in ATTRIBUTES_SEEN \ last.seen_before
    /\ NOT_KNOWN_GOOD_ATTRIBUTES_SEEN = last.not_known_good_before

(***************************************************************************)
(* Properties of the serializer                                            *)
(***************************************************************************)
\* the Document has exactly one child, an Element named html in the HTML
\* namespace
SingleHtmlRoot(doc) ==
    /\ Len(doc) = 1
    /\ doc[1].kind = "Element"
    /\ doc[1].ns = "html"
    /\ doc[1].local = "html"

\* C1: serialize returns an error and no text for every Document that does not
\* have exactly one child that is an html element: no child, two or more
\* children (html elements or not), or one child that is not html.
C1_SerializeRejectsBadRoot ==
    serialized.called /\ ~SingleHtmlRoot(serialized.doc) =>
        /\ ~serialized.result.ok
        /\ serialized.result.text = ""

\* a Document with two html children was rejected
C1_Witness ==
    /\ serialized.called
    /\ Len(serialized.doc) = 2
    /\ serialized.doc[1] = ElementData("html")
    /\ serialized.doc[2] = ElementData("html")
    /\ ~serialized.result.ok

\* C2: serialize of the tree create_fragment returns, nothing appended to it,
\* succeeds with the empty string; the html wrapper is never in the output.
C2_FreshFragmentSerializesEmpty ==
    serialized.called =>
        /\ serialized.fragment = "fresh" =>
                /\ SingleHtmlRoot(serialized.doc)
                /\ serialized.result = Ok("")
        /\ SingleHtmlRoot(serialized.doc) /\ serialized.root_kids = 0 =>
                serialized.result = Ok("")

C2_Witness ==
    /\ serialized.called
    /\ serialized.fragment = "fresh"
    /\ serialized.result = Ok("")

(***************************************************************************)
(* Properties of the traversal                                             *)
(***************************************************************************)
\* the children of each node of a level, level by level
RECURSIVE KidsOfAll(_)
KidsOfAll(level) ==
    IF level = <<>> THEN <<>>
    ELSE children[Head(level)] \o KidsOfAll(Tail(level))

RECURSIVE LevelsFrom(_)
LevelsFrom(level) ==
    IF level = <<>> THEN <<>> ELSE level \o LevelsFrom(KidsOfAll(level))

\* breadth-first order: the root, then each depth in turn, in document order
BreadthFirst(root) == LevelsFrom(<<root>>)

IsPrefix(short, long) ==
    /\ Len(short) <= Len(long)
    /\ \A i \in 1..Len(short) : short[i] = long[i]

\* C7: on a tree not changed during the iteration, traverse(root) yields the
\* nodes of root's subtree in breadth-first order, root first, each exactly
\* once, and once it has reported the end it goes on reporting it.
C7_TraverseBreadthFirst ==
    trav_root # NoTraversal /\ mutations = 0 =>
        /\ IsPrefix(yielded, BreadthFirst(trav_root))
        /\ \A i, j \in 1..Len(yielded) : i # j => yielded[i] # yielded[j]
        /\ Range(yielded) \subseteq Subtree(trav_root)
        /\ ended > 0 =>
                /\ yielded = BreadthFirst(trav_root)
                /\ Range(yielded) = Subtree(trav_root)
                /\ queue = <<>>

\* R = the document with children [1, 2], 1 with child [3]: R, 1, 2, 3, and
\* the end reported twice
C7_Witness ==
    /\ trav_root = Document
    /\ mutations = 0
    /\ children[Document] = <<1, 2>>
    /\ children[1] = <<3>>
    /\ yielded = <<Document, 1, 2, 3>>
    /\ ended = 2

Filter(seq, set) == SelectSeq(seq, LAMBDA n : n \in set)

\* C10 as claimed: when the caller, just handed node N, changes N's child
\* list before advancing the iterator (and changes nothing else), the nodes
\* the traversal goes on to yield for N's subtree are N's children as they
\* are after the change, in document order.
C10_YieldsChildrenAfterChange ==
    ended > 0 /\ mutations = 1 /\ changed # NoChange =>
        Filter(yielded, Range(changed.old) \cup Range(changed.new)) = changed.new

(***************************************************************************)
(* Properties of the ledger under concurrency                              *)
(***************************************************************************)
\* C9 as claimed: with coercions running in several threads while a reader
\* reads, what the reader got from unknown_seen() is a subset of what it got
\* from all_seen(), whichever accessor it called first, and no pair a thread
\* has inserted is lost.
C9_ReaderSnapshotConsistent ==
    /\ Len(reads) = 2 => Range(snap_unknown) \subseteq Range(snap_all)
    /\ \A w \in Workers :
            pc[w] = "insert_not_known_good" =>
                <<wargs[w].tag, rename_result(wargs[w].tag, wargs[w].property)>>
                    \in ATTRIBUTES_SEEN

====
